---------------------------- MODULE Spec2Model ----------------------------
(***************************************************************************)
(* SolarEdge poller: the provider client (solaredgemonitor/__init__.py),   *)
(* the poll cycle of fetch-latest.py (watermark, windowing loop, record    *)
(* normalisation, sink writes) and the history import of fetch-history.py. *)
(*                                                                         *)
(* Time is counted in seconds.  An instant is a number of seconds on the   *)
(* UTC axis; a wall-clock value is what a "%Y-%m-%d %H:%M:%S" string or a  *)
(* naive datetime denotes, instant + utcoffset in the site's timezone.     *)
(***************************************************************************)
EXTENDS Integers, Sequences, FiniteSets, TLC

VARIABLES
    sink,          \* the bucket: a set of points, one per (measurement, tags, time)
    now,           \* the wall clock, an instant
    utcoffset,     \* config["TIMEZONE"] as a fixed offset from UTC, in seconds
    pc,            \* where the running program is
    fn,            \* the function that is running, or ran last
    from_date,     \* the loop cursor
    to_date,       \* the loop's target end
    start_date,    \* from_date when the loop was entered
    chunk,         \* the loop's step (MAX_LOOKBACK_..., dt)
    min_dt,        \* what the loop adds to the cursor for start_time (MIN_DT or 0)
    measurements,  \* the battery aggregate collected by the loop
    requests,      \* <<start_time, end_time>> of every client call of the running function
    written,       \* the points the running function has handed to the write api
    diags,         \* how many diagnostics the running function's normaliser has printed
    raised,        \* the exception that ended the running function, or "none"
    last_query,    \* the HTTP outcome of the last SolarEdgeMonitor.query and what it did
    cycle,         \* how many top-level calls (bgfun, a history import) have been started
    seen,          \* the provider readings the poll cycles have normalised, once or again
    input,         \* the aggregate handed to a normaliser run on its own
    output,        \* what that normaliser did with it
    once,          \* args.once
    sched,         \* the BlockingScheduler of main: "none", "running" or "shutdown"
    status,        \* the process: "running", or how it ended
    bucket,        \* whether the bucket named by INFLUXDB_BUCKET exists
    unstored,      \* the points a killed process had normalised and not yet written
    failed         \* <<cycle, window>> of the battery requests that returned no data

vars == <<sink, now, utcoffset, pc, fn, from_date, to_date, start_date, chunk, min_dt,
          measurements, requests, written, diags, raised, last_query, cycle, seen,
          input, output, once, sched, status, bucket, unstored, failed>>

---------------------------------------------------------------------------
(* Program constants *)

ONE_SEC == 1
MIN_DT == ONE_SEC
ONE_WEEK == 604800
MAX_LOOKBACK_BATTERY == ONE_WEEK
\* a lookback of five weeks, longer than any month
MAX_LOOKBACK_FIVE_WEEKS == 5 * ONE_WEEK
MAX_LOOKBACK_POWERDETAILS == 4 * ONE_WEEK
\* fetch-history.py: the steps of the two history loops
dt == 2 * ONE_WEEK
battery_history_dt == 1 * ONE_WEEK
\* SolarEdgeMonitor.power_detail: "This API is limited to one-month period"; the
\* shortest month has 28 days
ONE_MONTH == 28 * 86400 * ONE_SEC
\* a lookback of three weeks
LOOKBACK_THREE_WEEKS == 3 * ONE_WEEK
\* range(start: -2w) of the watermark queries
LOOKBACK == 2 * ONE_WEEK
\* datetime(2199, 12, 31) on the model's clock, whose numbers stay below 2^31: it
\* lies after every instant the clock reaches and every timestamp the provider sends.
FAR_FUTURE == 2000000000

(* Bounds of the model *)

MaxHalfWeeks == 8     \* the clock and the history ranges span this many half weeks
MaxNeighbours == 1    \* entries before the entry an aggregate is built around
MaxTelemetries == 2   \* telemetry entries of one battery record
MaxSamples == 2       \* samples of one meter series
MaxCycles == 2        \* top-level calls in one behaviour

HalfWeek == ONE_WEEK \div 2
QuarterHour == 900 * ONE_SEC

Min(a, b) == IF a < b THEN a ELSE b
Restrict(f, K) == [k \in K |-> f[k]]
Indices(seq) == 1..Len(seq)
Elements(seq) == {seq[n] : n \in Indices(seq)}

RECURSIVE SeqsUpTo(_, _)
SeqsUpTo(S, n) ==
    IF n = 0 THEN {<<>>}
    ELSE LET shorter == SeqsUpTo(S, n - 1)
         IN shorter \cup {Append(s, x) : s \in {t \in shorter : Len(t) = n - 1}, x \in S}

---------------------------------------------------------------------------
(* The sink: InfluxDB's point model *)

PointKey(p) == <<p.measurement, p.tags, p.time>>

MergeFields(old, new) ==
    [k \in DOMAIN old \cup DOMAIN new |-> IF k \in DOMAIN new THEN new[k] ELSE old[k]]

\* write_api.write(bucket, record=point): a point with the key of a stored point
\* replaces the fields it carries and keeps the others.
Write(s, p) ==
    LET same == {q \in s : PointKey(q) = PointKey(p)}
    IN (s \ same) \cup
       {IF same = {} THEN p
        ELSE [p EXCEPT !.fields = MergeFields((CHOOSE q \in same : TRUE).fields, p.fields)]}

RECURSIVE WriteAll(_, _)
WriteAll(s, points) ==
    IF points = <<>> THEN s ELSE WriteAll(Write(s, Head(points)), Tail(points))

---------------------------------------------------------------------------
(* The provider client *)

None == [is_none |-> TRUE]
Some(x) == [is_none |-> FALSE, data |-> x]

\* What urlopen and the body can be for one request.  "json" carries the decoded body.
HttpKinds == {"json", "http_error", "bad_json", "url_error"}

\* SolarEdgeMonitor.query: the parsed body, or None after an HTTPError.  The handler
\* of JSONDecodeError formats e.code, an attribute that exception does not have, so it
\* raises AttributeError; an URLError has no handler at all.
query(resp) ==
    CASE resp.kind = "json"       -> [raised |-> "none", value |-> Some(resp.data)]
      [] resp.kind = "http_error" -> [raised |-> "none", value |-> None]
      [] resp.kind = "bad_json"   -> [raised |-> "AttributeError", value |-> None]
      [] resp.kind = "url_error"  -> [raised |-> "URLError", value |-> None]

\* SolarEdgeMonitor.batteries: data["storageData"]["batteries"], None when the
\* envelope does not have that shape.
batteries(resp) ==
    LET q == query(resp)
    IN IF q.raised # "none" \/ q.value.is_none THEN q
       ELSE LET data == q.value.data
            IN IF "storageData" \in DOMAIN data /\ "batteries" \in DOMAIN data.storageData
               THEN [raised |-> "none", value |-> Some(data.storageData.batteries)]
               ELSE [raised |-> "none", value |-> None]

\* SolarEdgeMonitor.power_detail: (meters, unit), None when either is not there.
power_detail(resp) ==
    LET q == query(resp)
    IN IF q.raised # "none" \/ q.value.is_none THEN q
       ELSE LET data == q.value.data
            IN IF /\ "powerDetails" \in DOMAIN data
                  /\ "meters" \in DOMAIN data.powerDetails
                  /\ "unit" \in DOMAIN data.powerDetails
               THEN [raised |-> "none",
                     value |-> Some([meters |-> data.powerDetails.meters,
                                     unit |-> data.powerDetails.unit])]
               ELSE [raised |-> "none", value |-> None]

---------------------------------------------------------------------------
(* The record normalisers.  Each returns the points it hands to the write   *)
(* api, in order, the number of diagnostics it prints, and the exception    *)
(* that stopped it ("none" when it ran to its end).                         *)

Ok(points, n) == [points |-> points, diags |-> n, raised |-> "none"]
Raise(exc) == [points |-> <<>>, diags |-> 0, raised |-> exc]

\* r, then rest if r ran to its end
Then(r, rest) ==
    IF r.raised # "none" THEN r
    ELSE [points |-> r.points \o rest.points,
          diags |-> r.diags + rest.diags,
          raised |-> rest.raised]

\* datetime.strptime(s, "%Y-%m-%d %H:%M:%S"): the naive datetime of the wall-clock
\* value; Point.time() stores a naive datetime as if it were UTC.
NaiveTime(wall) == wall

\* naive.astimezone(tz): the naive datetime read in the system's zone, taken here to
\* be the configured one.
LocalTime(wall, off) == wall - off

\* a point stamped with the time of the fetch instead of the sample's date
PowerPointNow(power_type, unit, measurement) ==
    [measurement |-> power_type,
     tags |-> [unit |-> unit],
     time |-> now,
     fields |-> [power |-> measurement.value]]

PowerPoint(power_type, unit, measurement) ==
    [measurement |-> power_type,
     tags |-> [unit |-> unit],
     time |-> NaiveTime(measurement.date),
     fields |-> [power |-> measurement.value]]

BatteryPoint(model, serial_no, ts, telemetry) ==
    [measurement |-> "battery",
     tags |-> [battery |-> model \o " (" \o serial_no \o ")"],
     time |-> ts,
     fields |-> [pct |-> telemetry.batteryPercentageState, watts |-> telemetry.power]]

\* fetch-latest.py, the loop over entry["values"]
RECURSIVE PowerValues(_, _, _)
PowerValues(values, power_type, unit) ==
    IF values = <<>> THEN Ok(<<>>, 0)
    ELSE LET measurement == Head(values)
             one == IF "value" \notin DOMAIN measurement THEN Ok(<<>>, 0)
                    ELSE IF "date" \notin DOMAIN measurement THEN Raise("KeyError")
                    ELSE Ok(<<PowerPoint(power_type, unit, measurement)>>, 0)
         IN Then(one, PowerValues(Tail(values), power_type, unit))

\* fetch-latest.py, the loop over meters
RECURSIVE NormalizePower(_, _)
NormalizePower(meters, unit) ==
    IF meters = <<>> THEN Ok(<<>>, 0)
    ELSE LET entry == Head(meters)
             one == IF "type" \notin DOMAIN entry THEN Ok(<<>>, 1)
                    ELSE IF "values" \notin DOMAIN entry THEN Ok(<<>>, 1)
                    ELSE PowerValues(entry.values, entry.type, unit)
         IN Then(one, NormalizePower(Tail(meters), unit))

\* fetch-history.py, _fetch_and_store_powerdetail_history: no check of the entry
RECURSIVE NormalizePowerHistory(_, _)
NormalizePowerHistory(meters, unit) ==
    IF meters = <<>> THEN Ok(<<>>, 0)
    ELSE LET entry == Head(meters)
             one == IF "type" \notin DOMAIN entry THEN Raise("KeyError")
                    ELSE IF "values" \notin DOMAIN entry THEN Raise("KeyError")
                    ELSE PowerValues(entry.values, entry.type, unit)
         IN Then(one, NormalizePowerHistory(Tail(meters), unit))

\* the loop over entry["telemetries"] leaving at the first incomplete entry (break
\* for continue)
RECURSIVE BatteryTelemetriesBreak(_, _, _, _)
BatteryTelemetriesBreak(telemetries, model, serial_no, off) ==
    IF telemetries = <<>> THEN Ok(<<>>, 0)
    ELSE LET telemetry == Head(telemetries)
         IN IF ~({"timeStamp", "batteryPercentageState", "power"} \subseteq DOMAIN telemetry)
            THEN Ok(<<>>, 1)
            ELSE Then(Ok(<<BatteryPoint(model, serial_no,
                                        LocalTime(telemetry.timeStamp, off),
                                        telemetry)>>, 0),
                      BatteryTelemetriesBreak(Tail(telemetries), model, serial_no, off))

\* fetch-latest.py, the loop over entry["telemetries"]
RECURSIVE BatteryTelemetries(_, _, _, _)
BatteryTelemetries(telemetries, model, serial_no, off) ==
    IF telemetries = <<>> THEN Ok(<<>>, 0)
    ELSE LET telemetry == Head(telemetries)
             one == IF "timeStamp" \notin DOMAIN telemetry THEN Ok(<<>>, 1)
                    ELSE IF "batteryPercentageState" \notin DOMAIN telemetry THEN Ok(<<>>, 1)
                    ELSE IF "power" \notin DOMAIN telemetry THEN Ok(<<>>, 1)
                    ELSE Ok(<<BatteryPoint(model, serial_no,
                                           LocalTime(telemetry.timeStamp, off),
                                           telemetry)>>, 0)
         IN Then(one, BatteryTelemetries(Tail(telemetries), model, serial_no, off))

\* fetch-latest.py, the loop over measurements
RECURSIVE NormalizeBattery(_, _)
NormalizeBattery(entries, off) ==
    IF entries = <<>> THEN Ok(<<>>, 0)
    ELSE LET entry == Head(entries)
             one == IF "modelNumber" \notin DOMAIN entry THEN Ok(<<>>, 1)
                    ELSE IF "serialNumber" \notin DOMAIN entry THEN Ok(<<>>, 1)
                    ELSE IF "telemetries" \notin DOMAIN entry THEN Raise("KeyError")
                    ELSE BatteryTelemetries(entry.telemetries, entry.modelNumber,
                                            entry.serialNumber, off)
         IN Then(one, NormalizeBattery(Tail(entries), off))

\* fetch-history.py, _json_to_db: the loop over entry["telemetries"], no check
RECURSIVE JsonTelemetries(_, _, _)
JsonTelemetries(telemetries, model, serial_no) ==
    IF telemetries = <<>> THEN Ok(<<>>, 0)
    ELSE LET telemetry == Head(telemetries)
             one == IF \/ "timeStamp" \notin DOMAIN telemetry
                       \/ "batteryPercentageState" \notin DOMAIN telemetry
                       \/ "power" \notin DOMAIN telemetry
                    THEN Raise("KeyError")
                    ELSE Ok(<<BatteryPoint(model, serial_no,
                                           NaiveTime(telemetry.timeStamp),
                                           telemetry)>>, 0)
         IN Then(one, JsonTelemetries(Tail(telemetries), model, serial_no))

\* fetch-history.py, _json_to_db: the loop over the file's entries
RECURSIVE JsonToDb(_)
JsonToDb(entries) ==
    IF entries = <<>> THEN Ok(<<>>, 0)
    ELSE LET entry == Head(entries)
             one == IF \/ "modelNumber" \notin DOMAIN entry
                       \/ "serialNumber" \notin DOMAIN entry
                       \/ "telemetries" \notin DOMAIN entry
                    THEN Raise("KeyError")
                    ELSE JsonTelemetries(entry.telemetries, entry.modelNumber,
                                         entry.serialNumber)
         IN Then(one, JsonToDb(Tail(entries)))

---------------------------------------------------------------------------
(* Provider data.  The entries of a list are told apart by their position:  *)
(* the i-th sample or telemetry entry is i quarters of an hour after T0.     *)

T0 == HalfWeek

TelemetryKeys == {"timeStamp", "batteryPercentageState", "power"}
\* a telemetry entry has all three keys or lacks one of them
TelemetryShapes == {K \in SUBSET TelemetryKeys : Cardinality(K) >= 2}

Telemetry(i, K) ==
    Restrict([timeStamp |-> T0 + i * QuarterHour,
              batteryPercentageState |-> 80 + i,
              power |-> 1200 + i], K)

TelemetryLists ==
    {[i \in 1..Len(ks) |-> Telemetry(i, ks[i])] : ks \in SeqsUpTo(TelemetryShapes, MaxTelemetries)}

BatteryKeys == {"modelNumber", "serialNumber", "telemetries"}

Battery(telemetries, K) ==
    Restrict([modelNumber |-> "RESU10H", serialNumber |-> "7E04", telemetries |-> telemetries], K)

\* a record with every key and any telemetries
RichBatteries == {Battery(tl, BatteryKeys) : tl \in TelemetryLists}

\* what a record can lack: nothing, either identity field or both, its telemetries
BatteryShapes ==
    {BatteryKeys, BatteryKeys \ {"modelNumber"}, BatteryKeys \ {"serialNumber"},
     {"telemetries"}, BatteryKeys \ {"telemetries"}}

\* a record of any shape, with one complete and one incomplete telemetry entry
PlainBatteries ==
    {Battery(<<Telemetry(1, TelemetryKeys), Telemetry(2, {"timeStamp", "power"})>>, K) :
        K \in BatteryShapes}

SampleKeys == {"date", "value"}
SampleShapes == (SUBSET SampleKeys) \ {{}}

Sample(i, K) == Restrict([date |-> T0 + i * QuarterHour, value |-> 1500 + i], K)

SampleLists ==
    {[i \in 1..Len(ks) |-> Sample(i, ks[i])] : ks \in SeqsUpTo(SampleShapes, MaxSamples)}

MeterKeys == {"type", "values"}

Meter(type, values, K) == Restrict([type |-> type, values |-> values], K)

RichMeters == {Meter(type, vl, MeterKeys) : type \in {"Production", "Consumption"}, vl \in SampleLists}

PlainMeters == {Meter("Production", <<Sample(1, SampleKeys)>>, K) : K \in SUBSET MeterKeys}

\* the aggregates built around one entry: entries of Plain before it, and possibly
\* the complete entry Last after it
Around(Rich, Plain, Last) ==
    {<<>>} \cup
    {pre \o <<e>> \o post : e \in Rich \cup Plain,
                            pre \in SeqsUpTo(Plain, MaxNeighbours),
                            post \in {<<>>, <<Last>>}}

BatteryAggregates ==
    Around(RichBatteries, PlainBatteries, Battery(<<Telemetry(1, TelemetryKeys)>>, BatteryKeys))
MeterAggregates ==
    Around(RichMeters, PlainMeters, Meter("Consumption", <<Sample(1, SampleKeys)>>, MeterKeys))

UtcOffsets == {0, 3600}

---------------------------------------------------------------------------
(* The normalisers on their own: SpecNorm hands each of them every           *)
(* aggregate above.                                                          *)

NoInput == [kind |-> "none"]
NoOutput == [by |-> "none"]
NoQuery == [kind |-> "none"]

\* a process has been started: no scheduler yet, nothing recorded of it
Started ==
    /\ sched = "none"
    /\ status = "running"
    /\ unstored = {}
    /\ failed = {}

Idle ==
    /\ fn = "none"
    /\ from_date = 0 /\ to_date = 0 /\ start_date = 0 /\ chunk = 0 /\ min_dt = 0
    /\ measurements = <<>> /\ requests = <<>> /\ written = <<>> /\ diags = 0
    /\ raised = "none" /\ last_query = NoQuery /\ cycle = 0 /\ seen = {}

InitNorm ==
    /\ Idle
    /\ now = 0
    /\ sink = {}
    /\ pc = "normalize"
    /\ utcoffset \in UtcOffsets
    /\ input \in {[kind |-> "battery", aggregate |-> a] : a \in BatteryAggregates}
            \cup {[kind |-> "power", aggregate |-> a, unit |-> "W"] : a \in MeterAggregates}
    /\ output = NoOutput
    /\ Started
    /\ once = FALSE
    /\ bucket = TRUE

Normalized(by, r) ==
    /\ pc = "normalize"
    /\ pc' = "normalized"
    /\ output' = [by |-> by, result |-> r]
    /\ sink' = WriteAll(sink, r.points)
    /\ written' = r.points
    /\ diags' = r.diags
    /\ raised' = r.raised
    /\ UNCHANGED <<now, utcoffset, fn, from_date, to_date, start_date, chunk, min_dt,
                   measurements, requests, last_query, cycle, seen, input>>
    /\ UNCHANGED <<once, sched, status, bucket, unstored, failed>>

RunNormalizeBattery ==
    /\ input.kind = "battery"
    /\ Normalized("NormalizeBattery", NormalizeBattery(input.aggregate, utcoffset))

RunJsonToDb ==
    /\ input.kind = "battery"
    /\ Normalized("JsonToDb", JsonToDb(input.aggregate))

RunNormalizePower ==
    /\ input.kind = "power"
    /\ Normalized("NormalizePower", NormalizePower(input.aggregate, input.unit))

RunNormalizePowerHistory ==
    /\ input.kind = "power"
    /\ Normalized("NormalizePowerHistory", NormalizePowerHistory(input.aggregate, input.unit))

NextNorm ==
    \/ RunNormalizeBattery
    \/ RunJsonToDb
    \/ RunNormalizePower
    \/ RunNormalizePowerHistory

SpecNorm == InitNorm /\ [][NextNorm]_vars

---------------------------------------------------------------------------
(* The readings of an aggregate, and the point each of them stands for *)

HasIdentity(entry) == {"modelNumber", "serialNumber"} \subseteq DOMAIN entry
CompleteTelemetry(telemetry) == TelemetryKeys \subseteq DOMAIN telemetry
HasTypeAndValues(entry) == MeterKeys \subseteq DOMAIN entry

\* <<i, j>>: telemetry entry j of record i, for the records among the first n that
\* have their identity fields and their telemetries
TelemetriesOf(entries, n) ==
    UNION {{<<i, j>> : j \in Indices(entries[i].telemetries)} :
              i \in {k \in 1..n : HasIdentity(entries[k]) /\ "telemetries" \in DOMAIN entries[k]}}

CompleteTelemetriesOf(entries, n) ==
    {ij \in TelemetriesOf(entries, n) : CompleteTelemetry(entries[ij[1]].telemetries[ij[2]])}

\* the records before the first one that has its identity fields and no telemetries
LastReached(entries) ==
    LET stuck == {k \in Indices(entries) :
                     HasIdentity(entries[k]) /\ "telemetries" \notin DOMAIN entries[k]}
    IN IF stuck = {} THEN Len(entries)
       ELSE (CHOOSE k \in stuck : \A l \in stuck : k <= l) - 1

\* the point claimed for a complete telemetry entry, its time as stored by `time`
TelemetryPoint(entry, telemetry, time) ==
    [measurement |-> "battery",
     tags |-> [battery |-> entry.modelNumber \o " (" \o entry.serialNumber \o ")"],
     time |-> time,
     fields |-> [pct |-> telemetry.batteryPercentageState, watts |-> telemetry.power]]

\* <<i, j>>: sample j of series entry i, for the entries that have type and values
SamplesOf(meters) ==
    UNION {{<<i, j>> : j \in Indices(meters[i].values)} :
              i \in {k \in Indices(meters) : HasTypeAndValues(meters[k])}}

ValuedSamplesOf(meters) ==
    {ij \in SamplesOf(meters) : "value" \in DOMAIN meters[ij[1]].values[ij[2]]}

SamplePoint(entry, unit, sample) ==
    [measurement |-> entry.type,
     tags |-> [unit |-> unit],
     time |-> sample.date,
     fields |-> [power |-> sample.value]]

\* the readings an aggregate holds, as the provider states them
MeterReadings(meters, unit) ==
    {[type |-> meters[ij[1]].type, unit |-> unit,
      date |-> meters[ij[1]].values[ij[2]].date,
      value |-> meters[ij[1]].values[ij[2]].value] :
        ij \in {x \in ValuedSamplesOf(meters) : "date" \in DOMAIN meters[x[1]].values[x[2]]}}

BatteryReadings(entries) ==
    {[modelNumber |-> entries[ij[1]].modelNumber,
      serialNumber |-> entries[ij[1]].serialNumber,
      telemetry |-> entries[ij[1]].telemetries[ij[2]]] :
        ij \in CompleteTelemetriesOf(entries, LastReached(entries))}

\* seen, after the poll cycle has normalised `readings`: <<r, 1>> for a reading it
\* met for the first time, <<r, 2>> for one it had normalised before
Seen(old, readings) ==
    LET known == {x[1] : x \in old}
    IN {x \in old : x[1] \notin readings}
       \cup {<<r, 1>> : r \in readings \ known}
       \cup {<<r, 2>> : r \in readings \cap known}

---------------------------------------------------------------------------
(* The watermark query and its reduction *)

Series(p) == <<p.measurement, p.tags>>

\* from(bucket) |> range(start: -2w) |> filter(measurements) |> last(): for every
\* series with a point in [t - 2w, t), the time of its last point in that range
QueryLast(s, t, wanted) ==
    LET inRange == {p \in s : /\ p.measurement \in wanted
                              /\ t - LOOKBACK <= p.time
                              /\ p.time < t}
    IN {p.time : p \in {q \in inRange :
                           \A o \in inRange : Series(o) = Series(q) => o.time <= q.time}}

\* the reduction with its comparison turned round: the latest of the times
RECURSIVE ResolveLatest(_, _)
ResolveLatest(from, times) ==
    IF times = {} THEN from
    ELSE LET t == CHOOSE x \in times : TRUE
         IN ResolveLatest(IF from = FAR_FUTURE \/ from < t THEN t ELSE from, times \ {t})

\* from_date = datetime(2199, 12, 31); for ... : if from_date > t: from_date = t
RECURSIVE ResolveWatermark(_, _)
ResolveWatermark(from, times) ==
    IF times = {} THEN from
    ELSE LET t == CHOOSE x \in times : TRUE
         IN ResolveWatermark(IF from > t THEN t ELSE from, times \ {t})

AllMeasurements == {"Production", "Consumption", "battery"}
PowerMeasurements == {"Production", "Consumption"}

\* the loop guard mistaken for one that admits an empty range
LoopGuardInclusive(from, to) == from <= to

\* while from_date < to_date
LoopGuard(from, to) == from < to

\* the window's end clamped to the target end, as the design describes the loop
EndDateClamped(from, step) == Min(from + step, to_date)

\* end_date = from_date + MAX_LOOKBACK_... (+ dt, + timedelta(weeks=1))
EndDate(from, step) == from + step

\* the start_time handed to the client: from_date + MIN_DT in the poll cycle,
\* from_date itself in the history imports
StartTime(from, offset) == from + offset

---------------------------------------------------------------------------
(* What the provider answers to a request for the wall-clock window         *)
(* [ws, we]: it has one reading per series every half week, up to the       *)
(* present.                                                                 *)

Grid == {k * HalfWeek : k \in 0..(MaxHalfWeeks + 1)}

DataTimes(ws, we) == {g \in Grid : ws <= g /\ g <= we /\ g - utcoffset <= now}

RECURSIVE Sorted(_)
Sorted(S) ==
    IF S = {} THEN <<>>
    ELSE LET m == CHOOSE x \in S : \A y \in S : x <= y
         IN <<m>> \o Sorted(S \ {m})

First(seq) == IF seq = <<>> THEN <<>> ELSE <<Head(seq)>>
Rest(seq) == IF seq = <<>> THEN <<>> ELSE Tail(seq)

TelemetryAt(times) ==
    [i \in Indices(times) |-> [timeStamp |-> times[i], batteryPercentageState |-> 80, power |-> 1200]]

\* the samples at `valued`, then a placeholder without value at each of `empty`
SamplesAt(valued, empty) ==
    [i \in Indices(valued) |-> [date |-> valued[i], value |-> 1500]]
    \o [i \in Indices(empty) |-> [date |-> empty[i]]]

\* a site's second battery: the same model with a serial number of its own
SecondBattery(telemetries) ==
    [Battery(telemetries, BatteryKeys) EXCEPT !.serialNumber = "7E05"]

BatteryBodies(ws, we) ==
    LET times == Sorted(DataTimes(ws, we))
        battery == Battery(TelemetryAt(times), BatteryKeys)
    IN {[storageData |-> [batteries |-> b]] :
           b \in {<<>>, <<battery>>,
                  <<Battery(TelemetryAt(times), BatteryKeys \ {"serialNumber"}), battery,
                    SecondBattery(TelemetryAt(times))>>}}
       \cup {[String |-> "Invalid token"]}

PowerBodies(ws, we) ==
    LET times == Sorted(DataTimes(ws, we))
        production == Meter("Production", SamplesAt(times, <<>>), MeterKeys)
    IN {[powerDetails |-> [unit |-> "W", meters |-> m]] :
           m \in {<<>>,
                  <<production, Meter("Consumption", SamplesAt(times, <<>>), MeterKeys)>>,
                  <<production,
                    Meter("Consumption", SamplesAt(First(times), Rest(times)),
                          MeterKeys)>>,
                  <<Meter("Production", SamplesAt(times, <<>>), {"values"}), production>>}}
       \cup {[String |-> "Invalid token"]}

Responses(bodies) ==
    {[kind |-> "json", data |-> d] : d \in bodies}
    \cup {[kind |-> k] : k \in HttpKinds \ {"json"}}

---------------------------------------------------------------------------
(* The programs: fetch-latest.py's bgfun (battery, then power details),      *)
(* fetch-history.py's bgfun (power details alone) and its history imports.   *)

\* What earlier runs have left in the bucket: nothing, or every reading up to some
\* time for each series, the last of them two and a half weeks ago for all series.  Only a series' last point matters to the programs.
Stored(production, consumption, battery, off) ==
    {[measurement |-> "Production", tags |-> [unit |-> "W"],
      time |-> production, fields |-> [power |-> 1500]],
     [measurement |-> "Consumption", tags |-> [unit |-> "W"],
      time |-> consumption, fields |-> [power |-> 1500]],
     [measurement |-> "battery", tags |-> [battery |-> "RESU10H (7E04)"],
      time |-> battery - off, fields |-> [pct |-> 80, watts |-> 1200]]}

InitialSinks(t, off) ==
    {{}} \cup {Stored(t - p * HalfWeek, t - c * HalfWeek, t - b * HalfWeek, off) :
                  p \in {1}, c \in {1, 2}, b \in {1, 3, 5}}
         \cup {Stored(t - 5 * HalfWeek, t - 5 * HalfWeek, t - 5 * HalfWeek, off)}

Init ==
    /\ Idle
    /\ now = MaxHalfWeeks * HalfWeek
    /\ utcoffset \in UtcOffsets
    /\ \/ bucket = TRUE /\ sink \in InitialSinks(now, utcoffset)
       \/ bucket = FALSE /\ sink = {}
    /\ pc = "idle"
    /\ input = NoInput
    /\ output = NoOutput
    /\ Started
    /\ once \in BOOLEAN

\* a function starts: its loop variables and what the model records of it
Begin(f, from, to, step, offset) ==
    /\ fn' = f
    /\ from_date' = from
    /\ to_date' = to
    /\ start_date' = from
    /\ chunk' = step
    /\ min_dt' = offset
    /\ measurements' = <<>>
    /\ requests' = <<>>
    /\ written' = <<>>
    /\ diags' = 0

\* an exception leaves the function
Raised(exc) ==
    /\ pc' = "raised"
    /\ raised' = exc

\* one call of a client method: the window asked for and what query() did
Called(resp, r) ==
    /\ requests' = Append(requests, <<StartTime(from_date, min_dt), EndDate(from_date, chunk)>>)
    /\ last_query' = [kind |-> resp.kind,
                      raised |-> query(resp).raised,
                      is_none |-> query(resp).value.is_none,
                      client_none |-> r.raised = "none" /\ r.value.is_none]

\* a top-level call is made when nothing runs
TopLevel ==
    /\ pc = "idle"
    /\ cycle < MaxCycles
    /\ cycle' = cycle + 1

\* fetch_and_store_latest_battery_data, up to its loop
LatestBatteryWatermark ==
    /\ TopLevel
    /\ bucket
    /\ Begin("battery",
             ResolveWatermark(FAR_FUTURE, QueryLast(sink, now, AllMeasurements)),
             now, MAX_LOOKBACK_BATTERY, MIN_DT)
    /\ pc' = "battery_loop"
    /\ UNCHANGED <<sink, now, utcoffset, raised, last_query, seen, input, output>>
    /\ UNCHANGED <<once, sched, status, bucket, unstored, failed>>

\* fetch_and_store_latest_battery_data, one turn of its loop; with `track`, the
\* windows for which the client returned no data are recorded in failed
BatteryRequest(track) ==
    /\ pc = "battery_loop" /\ fn = "battery"
    /\ LoopGuard(from_date, to_date)
    /\ \E resp \in Responses(BatteryBodies(StartTime(from_date, min_dt) + utcoffset,
                                           EndDate(from_date, chunk) + utcoffset)) :
          LET r == batteries(resp)
          IN /\ Called(resp, r)
             /\ IF r.raised # "none"
                THEN Raised(r.raised) /\ UNCHANGED <<from_date, measurements>>
                ELSE /\ measurements' = IF r.value.is_none THEN measurements
                                        ELSE measurements \o r.value.data
                     /\ from_date' = EndDate(from_date, chunk)
                     /\ UNCHANGED <<pc, raised>>
             /\ failed' = IF track /\ r.raised = "none" /\ r.value.is_none
                          THEN failed \cup {<<cycle, requests'[Len(requests')]>>}
                          ELSE failed
    /\ UNCHANGED <<sink, now, utcoffset, fn, to_date, start_date, chunk, min_dt, written,
                   diags, cycle, seen, input, output>>
    /\ UNCHANGED <<once, sched, status, bucket, unstored>>

LatestBatteryRequest == BatteryRequest(FALSE)

\* fetch_and_store_latest_battery_data, after its loop: every point is written
LatestBatteryStore ==
    /\ pc = "battery_loop" /\ fn = "battery"
    /\ ~LoopGuard(from_date, to_date)
    /\ LET r == NormalizeBattery(measurements, utcoffset)
       IN /\ sink' = WriteAll(sink, r.points)
          /\ written' = r.points
          /\ diags' = r.diags
          /\ IF r.raised # "none"
             THEN Raised(r.raised) /\ UNCHANGED seen
             ELSE /\ pc' = "power_start"
                  /\ seen' = Seen(seen, BatteryReadings(measurements))
                  /\ UNCHANGED raised
    /\ UNCHANGED <<now, utcoffset, fn, from_date, to_date, start_date, chunk, min_dt,
                   measurements, requests, last_query, cycle, input, output>>
    /\ UNCHANGED <<once, sched, status, bucket, unstored, failed>>

\* fetch_and_store_latest_power_details, up to its loop: after the battery data in
\* fetch-latest.py, on its own in fetch-history.py
LatestPowerWatermark ==
    /\ \/ pc = "power_start" /\ UNCHANGED cycle
       \/ TopLevel
    /\ bucket
    /\ Begin("power",
             ResolveWatermark(FAR_FUTURE, QueryLast(sink, now, PowerMeasurements)),
             now, MAX_LOOKBACK_POWERDETAILS, MIN_DT)
    /\ pc' = "power_loop"
    /\ UNCHANGED <<sink, now, utcoffset, raised, last_query, seen, input, output>>
    /\ UNCHANGED <<once, sched, status, bucket, unstored, failed>>

\* one turn of a power-detail loop: the request, then the points of its answer, by
\* the poll cycle's normaliser or the history import's
PowerRequest(poll) ==
    /\ LoopGuard(from_date, to_date)
    /\ \E resp \in Responses(PowerBodies(StartTime(from_date, min_dt) + utcoffset,
                                         EndDate(from_date, chunk) + utcoffset)) :
          LET r == power_detail(resp)
          IN /\ Called(resp, r)
             /\ IF r.raised # "none"
                THEN /\ Raised(r.raised)
                     /\ UNCHANGED <<sink, from_date, written, diags, seen, input>>
                ELSE IF r.value.is_none
                \* meters, unit = None
                THEN /\ Raised("TypeError")
                     /\ UNCHANGED <<sink, from_date, written, diags, seen, input>>
                ELSE LET meters == r.value.data.meters
                         unit == r.value.data.unit
                         n == IF poll THEN NormalizePower(meters, unit)
                              ELSE NormalizePowerHistory(meters, unit)
                     IN /\ from_date' = EndDate(from_date, chunk)
                        /\ input' = [kind |-> "power", aggregate |-> meters, unit |-> unit]
                        /\ sink' = WriteAll(sink, n.points)
                        /\ written' = written \o n.points
                        /\ diags' = diags + n.diags
                        /\ IF n.raised # "none"
                           THEN Raised(n.raised) /\ UNCHANGED seen
                           ELSE /\ seen' = IF poll THEN Seen(seen, MeterReadings(meters, unit))
                                           ELSE seen
                                /\ UNCHANGED <<pc, raised>>
    /\ UNCHANGED <<now, utcoffset, fn, to_date, start_date, chunk, min_dt, measurements,
                   cycle, output>>
    /\ UNCHANGED <<once, sched, status, bucket, unstored, failed>>

\* fetch_and_store_latest_power_details, one turn of its loop
LatestPowerRequest ==
    /\ pc = "power_loop" /\ fn = "power"
    /\ PowerRequest(TRUE)

\* a function returns when its loop ends
LoopDone(f) ==
    /\ pc = "power_loop" /\ fn = f
    /\ ~LoopGuard(from_date, to_date)
    /\ pc' = "done"
    /\ UNCHANGED <<sink, now, utcoffset, fn, from_date, to_date, start_date, chunk, min_dt,
                   measurements, requests, written, diags, raised, last_query, cycle, seen,
                   input, output>>
    /\ UNCHANGED <<once, sched, status, bucket, unstored, failed>>

LatestPowerDone == LoopDone("power")

\* a history import is the first thing run, and not through main: args.once plays no
\* part in it
FirstCall ==
    /\ TopLevel
    /\ cycle = 0
    /\ ~once

\* get_complete_powerdetail_history: _fetch_and_store_powerdetail_history(from_date,
\* to_date) from a configured date to the present, up to its loop
HistoryPowerCall ==
    /\ FirstCall
    /\ bucket /\ sink = {}
    /\ \E from \in Grid : Begin("power_history", from, now, dt, 0)
    /\ pc' = "power_loop"
    /\ UNCHANGED <<sink, now, utcoffset, raised, last_query, seen, input, output>>
    /\ UNCHANGED <<once, sched, status, bucket, unstored, failed>>

\* _fetch_and_store_powerdetail_history, one turn of its loop
HistoryPowerRequest ==
    /\ pc = "power_loop" /\ fn = "power_history"
    /\ PowerRequest(FALSE)

HistoryPowerDone == LoopDone("power_history")

\* get_complete_battery_history: _fetch_and_store_battery_history(from_date, filename)
\* from a given date to datetime.now(), up to its loop; its datetimes are naive
HistoryBatteryCall ==
    /\ FirstCall
    /\ sink = {}
    /\ \E from \in Grid : Begin("battery_history", from, now + utcoffset, battery_history_dt, 0)
    /\ pc' = "battery_loop"
    /\ UNCHANGED <<sink, now, utcoffset, raised, last_query, seen, input, output>>
    /\ UNCHANGED <<once, sched, status, bucket, unstored, failed>>

\* _fetch_and_store_battery_history, one turn of its loop
HistoryBatteryRequest ==
    /\ pc = "battery_loop" /\ fn = "battery_history"
    /\ LoopGuard(from_date, to_date)
    /\ \E resp \in Responses(BatteryBodies(StartTime(from_date, min_dt), EndDate(from_date, chunk))) :
          LET r == batteries(resp)
          IN /\ Called(resp, r)
             /\ IF r.raised # "none"
                THEN Raised(r.raised) /\ UNCHANGED <<from_date, measurements>>
                ELSE IF r.value.is_none
                \* measurements += None
                THEN Raised("TypeError") /\ UNCHANGED <<from_date, measurements>>
                ELSE /\ measurements' = measurements \o r.value.data
                     /\ from_date' = EndDate(from_date, chunk)
                     /\ UNCHANGED <<pc, raised>>
    /\ UNCHANGED <<sink, now, utcoffset, fn, to_date, start_date, chunk, min_dt, written,
                   diags, cycle, seen, input, output>>
    /\ UNCHANGED <<once, sched, status, bucket, unstored, failed>>

\* _fetch_and_store_battery_history, after its loop: the aggregate goes to the file
HistoryBatteryDump ==
    /\ pc = "battery_loop" /\ fn = "battery_history"
    /\ ~LoopGuard(from_date, to_date)
    /\ pc' = "json_to_db"
    /\ UNCHANGED <<sink, now, utcoffset, fn, from_date, to_date, start_date, chunk, min_dt,
                   measurements, requests, written, diags, raised, last_query, cycle, seen,
                   input, output>>
    /\ UNCHANGED <<once, sched, status, bucket, unstored, failed>>

\* buckets_api.find_bucket_by_name(bucket): the bucket, or None when there is none
find_bucket_by_name(exists) == IF exists THEN Some("bucket") ELSE None

\* buckets_api.delete_bucket(b): with None for b there is no bucket id to delete, and
\* the call raises ValueError
delete_bucket(b) == IF b.is_none THEN "ValueError" ELSE "none"

\* _json_to_db: the bucket is deleted and created again, then the file is written to it
JsonToDbRun ==
    /\ pc = "json_to_db"
    /\ IF delete_bucket(find_bucket_by_name(bucket)) # "none"
       THEN /\ Raised(delete_bucket(find_bucket_by_name(bucket)))
            /\ UNCHANGED <<sink, bucket, written, diags>>
       ELSE LET r == JsonToDb(measurements)
            IN /\ bucket' = TRUE
               /\ sink' = WriteAll({}, r.points)
               /\ written' = r.points
               /\ diags' = r.diags
               /\ IF r.raised # "none"
                  THEN Raised(r.raised)
                  ELSE pc' = "done" /\ UNCHANGED raised
    /\ seen' = {}
    /\ UNCHANGED <<now, utcoffset, fn, from_date, to_date, start_date, chunk, min_dt,
                   measurements, requests, last_query, cycle, input, output>>
    /\ UNCHANGED <<once, sched, status, unstored, failed>>

\* the watermark query of a poll function when the bucket does not exist: the query
\* api raises ApiException
QueryWithoutBucket ==
    /\ TopLevel
    /\ ~bucket
    /\ \/ Begin("battery", 0, 0, MAX_LOOKBACK_BATTERY, MIN_DT)
       \/ Begin("power", 0, 0, MAX_LOOKBACK_POWERDETAILS, MIN_DT)
    /\ Raised("ApiException")
    /\ UNCHANGED <<sink, now, utcoffset, last_query, seen, input, output>>
    /\ UNCHANGED <<once, sched, status, bucket, unstored, failed>>

\* the process is gone: nothing is left of its variables
Exited ==
    /\ pc' = "exited"
    /\ Begin("none", 0, 0, 0, 0)
    /\ last_query' = NoQuery
    /\ input' = NoInput
    /\ seen' = {}

\* main: the direct call of bgfun has raised; nothing catches the exception and the
\* process ends with a traceback
MainRaises ==
    /\ pc = "raised" /\ fn \in {"battery", "power"}
    /\ sched = "none" /\ status = "running"
    /\ status' = "exception"
    /\ UNCHANGED <<sink, now, utcoffset, pc, fn, from_date, to_date, start_date, chunk,
                   min_dt, measurements, requests, written, diags, raised, last_query,
                   cycle, seen, input, output, once, sched, bucket, unstored, failed>>

\* main: the direct call of bgfun has returned and args.once is set
MainReturn ==
    /\ pc = "done" /\ fn = "power"
    /\ sched = "none" /\ status = "running"
    /\ once
    /\ status' = "returned"
    /\ Exited
    /\ UNCHANGED <<sink, now, utcoffset, raised, cycle, output, once, sched, bucket,
                   unstored, failed>>

\* main: the direct call of bgfun has returned and args.once is not set; the
\* scheduler is created, given the job and started
SchedStart ==
    /\ pc = "done" /\ fn = "power"
    /\ sched = "none" /\ status = "running"
    /\ ~once
    /\ sched' = "running"
    /\ pc' = "waiting"
    /\ UNCHANGED <<sink, now, utcoffset, fn, from_date, to_date, start_date, chunk, min_dt,
                   measurements, requests, written, diags, raised, last_query, cycle, seen,
                   input, output, once, status, bucket, unstored, failed>>

\* the cron trigger fires: the scheduler calls bgfun again.  An exception of the
\* job before has been logged by the scheduler's executor.
Tick ==
    /\ sched = "running" /\ status = "running"
    /\ cycle < MaxCycles
    /\ \/ pc = "waiting"
       \/ pc \in {"done", "raised"} /\ fn \in {"battery", "power"}
    /\ pc' = "idle"
    /\ \E d \in {QuarterHour, HalfWeek} : now' = now + d
    /\ Begin("none", 0, 0, 0, 0)
    /\ raised' = "none"
    /\ last_query' = NoQuery
    /\ input' = NoInput
    /\ UNCHANGED <<sink, utcoffset, cycle, seen, output>>
    /\ UNCHANGED <<once, sched, status, bucket, unstored, failed>>

\* KeyboardInterrupt.  While the scheduler runs, main catches it and shuts the
\* scheduler down, which waits for a running job; before that, during the direct
\* call of bgfun, nothing catches it.
Interrupt ==
    /\ status = "running"
    /\ fn \in {"battery", "power"}
    /\ \/ /\ sched = "running"
          /\ pc \in {"waiting", "done", "raised"}
          /\ sched' = "shutdown"
          /\ status' = "returned"
          /\ raised' = "none"
       \/ /\ sched = "none"
          /\ pc \in {"battery_loop", "power_start", "power_loop", "done"}
          /\ status' = "interrupted"
          /\ raised' = "KeyboardInterrupt"
          /\ UNCHANGED sched
    /\ Exited
    /\ UNCHANGED <<sink, now, utcoffset, cycle, output, once, bucket, unstored, failed>>

\* every step but a turn of the poll cycle's battery loop
Others ==
    \/ LatestBatteryWatermark
    \/ LatestBatteryStore
    \/ LatestPowerWatermark
    \/ LatestPowerRequest
    \/ LatestPowerDone
    \/ HistoryPowerCall
    \/ HistoryPowerRequest
    \/ HistoryPowerDone
    \/ HistoryBatteryCall
    \/ HistoryBatteryRequest
    \/ HistoryBatteryDump
    \/ JsonToDbRun
    \/ QueryWithoutBucket
    \/ MainRaises
    \/ MainReturn
    \/ SchedStart
    \/ Tick
    \/ Interrupt

Next ==
    \/ LatestBatteryRequest
    \/ Others

Spec == Init /\ [][Next]_vars

\* the same programs, with the battery windows that returned no data on record
LatestBatteryRequestTracked == BatteryRequest(TRUE)

NextRetry ==
    \/ LatestBatteryRequestTracked
    \/ Others

SpecRetry == Init /\ [][NextRetry]_vars

\* the points of a sequence from the k-th on
Rest_from(points, k) == {points[i] : i \in k..Len(points)}

\* the process is killed while a function writes: the points before the k-th are in
\* the bucket, the others are lost with the process
Killed(points, k) ==
    /\ status = "running" /\ unstored = {}
    /\ cycle < MaxCycles
    /\ k \in 1..Len(points)
    /\ sink' = WriteAll(sink, SubSeq(points, 1, k - 1))
    /\ unstored' = Rest_from(points, k)
    /\ status' = "killed"
    /\ raised' = "none"
    /\ Exited
    /\ UNCHANGED <<now, utcoffset, cycle, output, once, sched, bucket, failed>>

\* fetch_and_store_latest_battery_data is killed in its write loop
CrashBatteryStore ==
    /\ pc = "battery_loop" /\ fn = "battery"
    /\ ~LoopGuard(from_date, to_date)
    /\ LET points == NormalizeBattery(measurements, utcoffset).points
       IN \E k \in 1..Len(points) : Killed(points, k)

\* fetch_and_store_latest_power_details is killed while it writes the points of an
\* answer
CrashPowerStore ==
    /\ pc = "power_loop" /\ fn = "power"
    /\ LoopGuard(from_date, to_date)
    /\ \E resp \in Responses(PowerBodies(StartTime(from_date, min_dt) + utcoffset,
                                         EndDate(from_date, chunk) + utcoffset)) :
          LET r == power_detail(resp)
          IN /\ r.raised = "none" /\ ~r.value.is_none
             /\ LET points == NormalizePower(r.value.data.meters,
                                              r.value.data.unit).points
                IN \E k \in 1..Len(points) : Killed(points, k)

\* the program is started again after it was killed
Restart ==
    /\ status = "killed"
    /\ status' = "running"
    /\ sched' = "none"
    /\ pc' = "idle"
    /\ now' = now + QuarterHour
    /\ UNCHANGED <<sink, utcoffset, fn, from_date, to_date, start_date, chunk, min_dt,
                   measurements, requests, written, diags, raised, last_query, cycle, seen,
                   input, output, once, bucket, unstored, failed>>

NextCrash ==
    \/ Next
    \/ CrashBatteryStore
    \/ CrashPowerStore
    \/ Restart

SpecCrash == Init /\ [][NextCrash]_vars

---------------------------------------------------------------------------
(* The claims *)

\* config["INSTALLATION_DATE"], the origin of the model's clock
INSTALLATION_DATE == 0

Ceil(a, b) == (a + b - 1) \div b

PollFunctions == {"battery", "power"}
LoopFunctions == PollFunctions \cup {"battery_history", "power_history"}

\* the range the running loop was asked to cover
Range == to_date - start_date

\* C1 (as claimed): when a loop over a range longer than its chunk has issued all its
\* requests, there are ceil((E - S) / max_chunk) of them, the first starts at S, the
\* last ends at E and each starts where the one before it ends.
C1_ExactTiling ==
    (fn \in LoopFunctions /\ Range > chunk /\ ~LoopGuard(from_date, to_date))
    => /\ Len(requests) = Ceil(Range, chunk)
       /\ requests[1][1] = start_date
       /\ requests[Len(requests)][2] = to_date
       /\ \A k \in 1..(Len(requests) - 1) : requests[k + 1][1] = requests[k][2]

\* C1 (amended): the k-th request of a loop is for the k-th full chunk after S, with
\* the loop's offset (one second in the poll cycle, none in the history imports) added
\* to its start; a loop never issues more than ceil((E - S) / max_chunk) requests and,
\* once its cursor has reached E, has issued exactly that many; its last window ends
\* at S + n * max_chunk, which is E only when max_chunk divides E - S.
C1_FullChunks ==
    (fn \in LoopFunctions)
    => /\ \A k \in Indices(requests) :
              requests[k] = <<start_date + (k - 1) * chunk + min_dt, start_date + k * chunk>>
       /\ from_date \in {start_date + Len(requests) * chunk,
                         start_date + (Len(requests) - 1) * chunk}
       /\ (Range > 0) => Len(requests) <= Ceil(Range, chunk)
       /\ (Range > 0 /\ ~LoopGuard(from_date, to_date))
          => /\ from_date = start_date + Len(requests) * chunk
             /\ Len(requests) = Ceil(Range, chunk)
             /\ requests[Len(requests)][2] >= to_date
             /\ (requests[Len(requests)][2] = to_date) <=> (Range % chunk = 0)

\* C1's case: the battery loop of the poll cycle has covered a range longer than a
\* week with two requests, and the second one ends after E.
C1_Witness ==
    /\ fn = "battery" /\ pc = "power_start"
    /\ Range > chunk
    /\ Len(requests) = 2
    /\ requests[1] = <<start_date + MIN_DT, start_date + ONE_WEEK>>
    /\ requests[2][2] > to_date

\* C2: a loop entered with its start at or after its end issues no request, collects
\* nothing, and its function writes no point.
C2_NothingWhenStartNotBeforeEnd ==
    (fn \in LoopFunctions /\ start_date >= to_date)
    => /\ requests = <<>>
       /\ measurements = <<>>
       /\ written = <<>>

\* C2's case: a function has run to its end on a range whose start is not before
\* its end (the history import asked for an empty range, and the poll cycle with
\* a start after now).
C2_Witness ==
    /\ pc = "done"
    /\ fn \in LoopFunctions
    /\ start_date >= to_date

\* C3 (as claimed): in the poll cycle, after a request for which the client returned
\* no data, the function goes on: nothing is raised and the cursor is at the end of
\* the window that failed.
C3_FailedChunkSkipped ==
    (fn \in PollFunctions /\ last_query.kind # "none" /\ last_query.client_none)
    => /\ raised = "none"
       /\ from_date = requests[Len(requests)][2]

\* C3, the battery path alone: the same statement holds of it.
C3_BatteryPath ==
    (fn = "power") \/ C3_FailedChunkSkipped

\* C4 (as claimed): query raises nothing and returns None when the HTTP layer
\* reports an error status and when the body is not JSON.
C4_QueryNeverRaises ==
    (last_query.kind \in {"http_error", "bad_json"})
    => /\ last_query.raised = "none"
       /\ last_query.is_none

\* C4, the error status alone: the same statement holds of it.
C4_HttpError ==
    (last_query.kind = "bad_json") \/ C4_QueryNeverRaises

\* C5 (as claimed): whichever normaliser of power-detail aggregates runs, on an
\* aggregate whose samples with a value all have a date, it runs to its end, emits
\* exactly one point per sample with a value inside an entry that has type and
\* values (measurement = type, tag unit, field power, the sample's time), and prints
\* one diagnostic per entry that lacks type or values.
C5_OnePointPerValuedSample ==
    (/\ pc = "normalized"
     /\ output.by \in {"NormalizePower", "NormalizePowerHistory"}
     /\ \A ij \in ValuedSamplesOf(input.aggregate) :
            "date" \in DOMAIN input.aggregate[ij[1]].values[ij[2]])
    => LET meters == input.aggregate
           valued == ValuedSamplesOf(meters)
           r == output.result
       IN /\ r.raised = "none"
          /\ Len(r.points) = Cardinality(valued)
          /\ Elements(r.points) =
                {SamplePoint(meters[ij[1]], input.unit, meters[ij[1]].values[ij[2]]) :
                    ij \in valued}
          /\ r.diags = Cardinality({k \in Indices(meters) : ~HasTypeAndValues(meters[k])})

\* C5, the poll cycle's normaliser alone: the same statement holds of it.
C5_PollCycleNormalizer ==
    (output.by = "NormalizePowerHistory") \/ C5_OnePointPerValuedSample

\* C6 (as claimed): whichever normaliser of battery aggregates runs, on an aggregate
\* whose records with identity fields are well formed, it runs to its end, a record
\* that lacks modelNumber or serialNumber yields no point and one diagnostic, and
\* the records after it yield their points.
C6_RecordWithoutIdentity ==
    (/\ pc = "normalized"
     /\ output.by \in {"NormalizeBattery", "JsonToDb"}
     /\ LastReached(input.aggregate) = Len(input.aggregate)
     /\ \A ij \in TelemetriesOf(input.aggregate, Len(input.aggregate)) :
            CompleteTelemetry(input.aggregate[ij[1]].telemetries[ij[2]]))
    => LET entries == input.aggregate
           r == output.result
       IN /\ r.raised = "none"
          /\ Len(r.points) = Cardinality(TelemetriesOf(entries, Len(entries)))
          /\ r.diags = Cardinality({k \in Indices(entries) : ~HasIdentity(entries[k])})

\* C6, the poll cycle's normaliser alone: the same statement holds of it.
C6_PollCycleNormalizer ==
    (output.by = "JsonToDb") \/ C6_RecordWithoutIdentity

\* C7: the poll cycle's battery normaliser emits, for the records it reaches, exactly
\* one point per telemetry entry that has timeStamp, batteryPercentageState and
\* power, in a record that has both identity fields: measurement battery, tag
\* battery = "model (serial)", fields pct and watts.  A telemetry entry that lacks
\* one of the three yields no point and does not stop its siblings.
C7_TelemetrySkippedAlone ==
    (pc = "normalized" /\ output.by = "NormalizeBattery")
    => LET entries == input.aggregate
           complete == CompleteTelemetriesOf(entries, LastReached(entries))
           r == output.result
       IN /\ Len(r.points) = Cardinality(complete)
          /\ Elements(r.points) =
                {TelemetryPoint(entries[ij[1]], entries[ij[1]].telemetries[ij[2]],
                                entries[ij[1]].telemetries[ij[2]].timeStamp - utcoffset) :
                    ij \in complete}
          /\ \A p \in Elements(r.points) : p.tags.battery = "RESU10H (7E04)"

\* C7's case: a record with both identity fields whose first telemetry entry lacks a
\* field and whose second is complete has been normalised, and the second got its point.
C7_Witness ==
    /\ pc = "normalized" /\ output.by = "NormalizeBattery"
    /\ output.result.raised = "none"
    /\ \E i \in Indices(input.aggregate) :
          LET entry == input.aggregate[i]
          IN /\ HasIdentity(entry) /\ "telemetries" \in DOMAIN entry
             /\ Len(entry.telemetries) = 2
             /\ ~CompleteTelemetry(entry.telemetries[1])
             /\ CompleteTelemetry(entry.telemetries[2])
             /\ TelemetryPoint(entry, entry.telemetries[2],
                               entry.telemetries[2].timeStamp - utcoffset)
                   \in Elements(output.result.points)

\* the measurements a poll function's watermark query asks for
Wanted == IF fn = "battery" THEN AllMeasurements ELSE PowerMeasurements

\* a poll function has resolved its watermark and not yet entered its loop
Resolved ==
    /\ fn \in PollFunctions
    /\ pc \in {"battery_loop", "power_loop"}
    /\ requests = <<>>

\* C8: the watermark a poll function starts from is the earliest of the last-point
\* times of the series its lookback query returns, so it is not after the last
\* stored time of any of them; when the query returns nothing it is the sentinel.
C8_WatermarkIsEarliestLast ==
    Resolved
    => LET times == QueryLast(sink, now, Wanted)
       IN IF times = {} THEN start_date = FAR_FUTURE
          ELSE /\ start_date \in times
               /\ \A t \in times : start_date <= t

\* C8's case: the query has returned series whose last points differ, and the
\* watermark is the earlier one.
C8_Witness ==
    /\ Resolved
    /\ \E t1, t2 \in QueryLast(sink, now, Wanted) : t1 < t2 /\ start_date = t1

\* C9 (as claimed): when the lookback query returns nothing, the poll function
\* starts its loop from the installation date, never from the sentinel.
C9_SentinelReplaced ==
    (Resolved /\ QueryLast(sink, now, Wanted) = {})
    => /\ start_date = INSTALLATION_DATE
       /\ from_date # FAR_FUTURE

\* C9, what does hold: the sentinel is never a bound of a request and never the
\* time of a stored point.
C9_SentinelNeverUsed ==
    /\ \A k \in Indices(requests) : FAR_FUTURE \notin {requests[k][1], requests[k][2]}
    /\ \A p \in sink : p.time # FAR_FUTURE

\* the readings the step that is being taken has normalised
StepReadings ==
    IF fn = "battery" THEN BatteryReadings(measurements)
    ELSE MeterReadings(input'.aggregate, input'.unit)

\* the step normalises an aggregate of the poll cycle to its end
NormalizingStep ==
    /\ fn \in PollFunctions
    /\ pc' # "raised"
    /\ \/ fn = "battery" /\ pc = "battery_loop" /\ pc' = "power_start"
       \/ fn = "power" /\ pc = "power_loop" /\ Len(requests') > Len(requests)

\* C10: a step of a poll cycle that normalises only readings an earlier step has
\* normalised, and so writes the same points again, leaves the bucket as it was.
C10_RewriteChangesNothing ==
    [][(NormalizingStep /\ StepReadings \subseteq {x[1] : x \in seen}) => sink' = sink]_vars

\* C10's case: a poll cycle has written points for readings that had been
\* normalised before.
C10_Witness ==
    /\ fn \in PollFunctions
    /\ written # <<>>
    /\ \E x \in seen : x[2] = 2
    /\ cycle = 2

\* the function that backfills battery data has run its normaliser to the end, after
\* a loop of several chunks
BackfillDone ==
    /\ \/ fn = "battery" /\ pc = "power_start"
       \/ fn = "battery_history" /\ pc = "done"
    /\ Len(requests) >= 2

\* C11 (as claimed): after a battery backfill over several weekly chunks, the points
\* emitted are in non-decreasing timestamp order across all chunks and all records,
\* and there is one per valid telemetry entry of the aggregate.
C11_SortedAcrossChunks ==
    BackfillDone
    => /\ \A i, j \in Indices(written) : i < j => written[i].time <= written[j].time
       /\ Len(written) = Cardinality(CompleteTelemetriesOf(measurements, Len(measurements)))

\* C11, what does hold: the points are emitted in the order of the aggregate, so the
\* timestamps of one battery's points never decrease, and a three-week history range
\* is fetched with exactly three requests.
C11_SortedPerBattery ==
    /\ BackfillDone
       => /\ \A i, j \in Indices(written) :
                 (i < j /\ written[i].tags = written[j].tags)
                 => written[i].time <= written[j].time
          /\ Len(written) = Cardinality(CompleteTelemetriesOf(measurements, Len(measurements)))
    /\ (fn = "battery_history" /\ pc \in {"json_to_db", "done"} /\ Range = 3 * ONE_WEEK)
       => Len(requests) = 3


\* the longest window the endpoint of the running function is asked for: one month
\* for power details, the weekly chunk for storage data
MaxRange == IF fn \in {"power", "power_history"} THEN ONE_MONTH ELSE ONE_WEEK

\* C13: every window handed to the provider client starts strictly before it ends and
\* is no longer than the endpoint's maximum range, whatever the cursor and the end.
C13_FetchWindowInvariant ==
    (fn \in LoopFunctions)
    => \A k \in Indices(requests) :
          /\ requests[k][1] < requests[k][2]
          /\ requests[k][2] - requests[k][1] <= MaxRange

\* C13's case: the poll cycle has asked for power details over four weeks less a
\* second, the longest window any loop asks for.
C13_Witness ==
    /\ fn = "power"
    /\ requests # <<>>
    /\ requests[1][2] - requests[1][1] = ONE_MONTH - ONE_SEC


\* C14 (as claimed): a normaliser of the poll cycle or of the power-detail history
\* never raises, whatever keys the entries of its aggregate lack.
C14_NormalizerNeverRaises ==
    (/\ pc = "normalized"
     /\ output.by \in {"NormalizePower", "NormalizeBattery", "NormalizePowerHistory"})
    => output.result.raised = "none"

\* C14, what does hold: the poll cycle's normalisers run to their end on every
\* aggregate in which each record with its identity fields has its telemetries and
\* each sample with a value has its date.
C14_GuardedKeysOnly ==
    (/\ pc = "normalized"
     /\ \/ /\ output.by = "NormalizeBattery"
           /\ LastReached(input.aggregate) = Len(input.aggregate)
        \/ /\ output.by = "NormalizePower"
           /\ \A ij \in ValuedSamplesOf(input.aggregate) :
                  "date" \in DOMAIN input.aggregate[ij[1]].values[ij[2]])
    => output.result.raised = "none"


\* a poll function that started from a stored watermark before the present
FromStoredWatermark ==
    /\ fn \in PollFunctions
    /\ start_date # FAR_FUTURE
    /\ start_date < to_date

\* the windows asked for so far start one second after the watermark and follow each
\* other second by second
GaplessFromWatermark ==
    /\ \A k \in Indices(requests) : requests[k][1] > start_date
    /\ requests # <<>> => requests[1][1] = start_date + ONE_SEC
    /\ \A k \in 1..(Len(requests) - 1) : requests[k + 1][1] = requests[k][2] + ONE_SEC

\* C15 (as claimed): when a poll function that started from a stored watermark W is
\* over, no window it asked for holds W, the first one starts at W plus one second,
\* and the windows cover every second after W up to the cycle's end time.
C15_CoversFromWatermark ==
    (FromStoredWatermark /\ pc \in {"power_start", "done", "raised"})
    => /\ GaplessFromWatermark
       /\ requests # <<>>
       /\ requests[Len(requests)][2] >= to_date

\* C15, what does hold: the windows asked for are gapless from W plus one second at
\* every moment, and reach the end time whenever the loop runs to its end.
C15_GaplessSoFar ==
    FromStoredWatermark
    => /\ GaplessFromWatermark
       /\ (pc \in {"power_start", "done"}) => requests[Len(requests)][2] >= to_date


\* a loop has issued finitely many requests, no window twice
FinitelyManyRequests ==
    /\ chunk > 0
    /\ (Range > 0) => Len(requests) <= Ceil(Range, chunk)
    /\ (Range <= 0) => requests = <<>>
    /\ \A i, j \in Indices(requests) : i # j => requests[i] # requests[j]

\* C20 (as claimed): in every loop, each request, whether it succeeded or not, has
\* moved the cursor to the end of its window, a positive chunk further; so the loop
\* issues finitely many requests and none of them twice.
C20_CursorAlwaysAdvances ==
    (fn \in LoopFunctions)
    => /\ FinitelyManyRequests
       /\ from_date = start_date + Len(requests) * chunk

\* C20, what does hold: every loop issues finitely many requests and none twice; a
\* request that returns moves the cursor a positive chunk further, and one that
\* does not return ends the function with an exception.
C20_AdvancesOrRaises ==
    (fn \in LoopFunctions)
    => /\ FinitelyManyRequests
       /\ \/ from_date = start_date + Len(requests) * chunk
          \/ /\ pc = "raised"
             /\ from_date = start_date + (Len(requests) - 1) * chunk


\* the process started by main is over
MainOver == status \in {"returned", "exception", "interrupted"}

\* C12 (as claimed): with --once the program runs one poll cycle and exits, and no
\* scheduler is ever created; without it the cycles after the first are the
\* scheduler's, and the process ends only by an interrupt, with the scheduler shut
\* down and a normal exit.
C12_OnceOrUntilInterrupted ==
    /\ once => /\ sched = "none"
               /\ cycle <= 1
               /\ (status = "returned") => cycle = 1
    /\ ~once => /\ (cycle >= 2) => sched # "none"
                /\ MainOver => (status = "returned" /\ sched = "shutdown")

\* C12, what does hold: the statement about --once, and without it the scheduler
\* runs every cycle after the first and is shut down by an interrupt that comes
\* while it runs.
C12_OnceAndScheduled ==
    /\ once => /\ sched = "none"
               /\ cycle <= 1
               /\ (status = "returned") => cycle = 1
    /\ ~once => /\ (cycle >= 2) => sched # "none"
                /\ (status = "returned") <=> (sched = "shutdown")

\* C18 (as claimed): without --once, an exception inside a poll cycle ends that cycle
\* alone: the process is never ended by it, whichever cycle it is.
C18_FailedCycleEndsOnlyItself ==
    ~once => status # "exception"

\* C18, the scheduled cycles alone: after a cycle the scheduler ran has raised, the
\* process and the scheduler run on and the next trigger fires.
C18_ScheduledCycles ==
    (pc = "raised" /\ sched = "running")
    => /\ status = "running"
       /\ (cycle < MaxCycles) => ENABLED Tick

\* the reinitialisation of the bucket has been attempted by the history import
ReinitAttempted ==
    /\ fn = "battery_history"
    /\ \/ pc = "done"
       \/ pc = "raised" /\ raised \in {"ValueError", "KeyError"}

\* C19 (as claimed): the reinitialisation succeeds whether or not the bucket existed:
\* after it the bucket exists and holds nothing but what the import wrote.
C19_ReinitAlwaysSucceeds ==
    ReinitAttempted
    => /\ raised # "ValueError"
       /\ bucket
       /\ sink = WriteAll({}, written)

\* C19, what does hold: only _json_to_db creates a bucket or removes points from it,
\* and on a bucket that exists it succeeds.
C19_OnlyHistoryImport ==
    [][/\ (bucket' # bucket \/ ~(sink \subseteq sink'))
          => (pc = "json_to_db" /\ fn = "battery_history")
       /\ (pc = "json_to_db" /\ bucket) => (bucket' /\ raised' # "ValueError")]_vars


\* two request windows overlap or are adjacent
Touches(a, b) == a[1] <= b[2] + MIN_DT /\ b[1] <= a[2] + MIN_DT

\* the battery loop of the running cycle has made all its requests
BatteryRequestsMade ==
    /\ fn = "battery" /\ pc = "battery_loop"
    /\ ~LoopGuard(from_date, to_date)

\* a window for which an earlier cycle got no data, while battery data of a later
\* window was stored
FailedBeforeStored(f) ==
    /\ f[1] < cycle
    /\ \E p \in sink : p.measurement = "battery" /\ p.time > f[2][2]

\* C17 (as claimed): when a battery request has failed in a cycle whose later window
\* was stored, the requests of a following cycle include a window that overlaps the
\* failed one or is adjacent to it.
C17_FailedWindowRequestedAgain ==
    BatteryRequestsMade
    => \A f \in failed :
          FailedBeforeStored(f)
          => \E i \in 1..Len(requests) : Touches(requests[i], f[2])

\* C17, what the loop does: a window that fails is followed in the same cycle by the
\* window adjacent to it, and the cycle goes on to its end time.
C17_NextWindowSameCycle ==
    BatteryRequestsMade
    => \A f \in failed :
          f[1] = cycle
          => /\ f[2][2] >= to_date
                \/ \E i \in 1..Len(requests) : requests[i][1] = f[2][2] + MIN_DT
             /\ from_date >= to_date


\* a point that was lost with a killed process and is still not in the bucket
StillMissing(p) == \A q \in sink : PointKey(q) # PointKey(p)

\* C16 (as claimed): after the process was killed between the writes of a cycle, the
\* watermark a poll function of a later cycle resolves lies before every point of its
\* series that was lost and is still missing, so its first request starts no later
\* than that point.
C16_ResumeNotAfterUnstored ==
    Resolved
    => \A p \in unstored :
          StillMissing(p)
          => /\ (fn = "battery" /\ p.measurement = "battery")
                => start_date + MIN_DT <= p.time
             /\ (fn = "power" /\ p.measurement \in PowerMeasurements)
                => start_date + MIN_DT + utcoffset <= p.time

\* C16, what holds: a lost point is after the last stored point of its own series
\* whenever that series has a point in the bucket.
C16_AfterOwnSeries ==
    (status = "killed")
    => \A p \in unstored : \A q \in sink :
          (q.measurement = p.measurement /\ q.tags = p.tags /\ StillMissing(p))
          => \/ q.time < p.time
             \/ \E u \in unstored : PointKey(u) = PointKey(q)


\* the two weeks of the claim
TWO_WEEKS == 2 * ONE_WEEK

\* the newest stored point of every series the running function queries is older
\* than two weeks (or there is none)
Stale == \A p \in sink : p.measurement \in Wanted => p.time < now - TWO_WEEKS

\* C21: when the newest stored point of every queried series is older than two
\* weeks, the poll function resolves the far-future sentinel as it does on an empty
\* bucket, makes no request, writes nothing and does not raise, in the first cycle
\* and in every later one.
C21_StaleSinkNeverResumes ==
    (fn \in PollFunctions /\ bucket /\ Stale)
    => /\ pc # "raised"
       /\ start_date = FAR_FUTURE
       /\ requests = <<>>
       /\ written = <<>>

\* C21's case: a later cycle has run to its end on a bucket that holds points, all
\* of them older than two weeks.
C21_Witness ==
    /\ cycle >= 2
    /\ fn = "power" /\ pc = "done"
    /\ sink # {}
    /\ Stale

=============================================================================
